---- MODULE Spec2Model ----
(***************************************************************************)
(* Model of gocql's clusterMetadataManager (cluster_metadata.go): the      *)
(* copy-on-write ClusterMetadata snapshot, its token ring and per-keyspace *)
(* replica maps, and the operations that rebuild and publish it.           *)
(*                                                                         *)
(* Every mutating method holds m.mu from its first to its last statement,  *)
(* so each one is one atomic action.  ClusterMetadata values live in a     *)
(* heap of objects addressed by pointers, because the claims are about     *)
(* pointer identity and about what a reader holding an old pointer sees.   *)
(* Objects nobody references any more are reclaimed (Go is garbage         *)
(* collected), which keeps the heap finite.                                *)
(***************************************************************************)
EXTENDS Integers, Sequences, FiniteSets, TLC

\* ------------------------------------------------------------------ bounds
\* largest replication factor the keyspace resolver answers with
MaxRF == 2

\* ------------------------------------------------------------ fixed inputs
\* connect addresses of the hosts the discovery layer can hand in
Hosts == {"A", "B", "C", "D"}

\* two token assignments (HostInfo.tokens): one token per host; and one with
\* virtual nodes and a host that carries no token
Layouts == {"single", "vnodes"}

\* HostInfo.tokens of host h under layout l
TokensOf(l, h) ==
  CASE h = "A" -> IF l = "single" THEN {0} ELSE {0, 10}
    [] h = "B" -> {25}
    [] h = "C" -> IF l = "single" THEN {50} ELSE {}
    [] h = "D" -> IF l = "single" THEN {75} ELSE {75, 85}

Keyspaces == {"ks1", "ks2"}

\* sessions that may try to own the manager, and their cfg.Keyspace
Sessions == {"s1", "s2"}
CfgKeyspace(s) == IF s = "s1" THEN "ks1" ELSE "ks2"

\* partitioner names handed to setPartitioner
ValidPartitioners == {"Murmur3Partitioner"}
PartitionerNames == ValidPartitioners \cup {"bogus"}

\* pointers to ClusterMetadata objects; "nil" is the nil pointer
Ptrs == {"p1", "p2", "p3"}

\* answers of the keyspace resolver: an error, or a KeyspaceMetadata whose
\* strategy class is SimpleStrategy(rf) or one getStrategy does not know
KeyspaceAnswers ==
  {[err |-> TRUE, class |-> "", rf |-> 0]}
    \cup {[err |-> FALSE, class |-> "UnknownStrategy", rf |-> 0]}
    \cup {[err |-> FALSE, class |-> "SimpleStrategy", rf |-> n] : n \in 1..MaxRF}

\* order of ring entries with equal tokens: by host identity
HostOrder == <<"A", "B", "C", "D">>
HostRank(h) == CHOOSE i \in 1..Len(HostOrder) : HostOrder[i] = h

\* host lists handed to addHosts: every selection of distinct hosts of H
RECURSIVE ListOf(_)
ListOf(S) ==
  IF S = {} THEN <<>>
  ELSE LET h == CHOOSE x \in S : \A y \in S : HostRank(x) <= HostRank(y)
       IN <<h>> \o ListOf(S \ {h})
HostLists(H) == {ListOf(S) : S \in SUBSET H}

\* lastOp.ans of a call that never asked the resolver
NoAnswer == [err |-> FALSE, class |-> "", rf |-> 0]

VARIABLES
  layout,               \* token assignment of the hosts (input data)
  getKeyspaceMetadata,  \* session whose resolver is bound, "nil" before init
  getKeyspaceName,      \* session whose keyspace name is bound, "nil" before init
  logger,               \* session whose logger is bound, "nil" before init
  hosts,                \* cowHostList: the hosts, unique by connect address
                        \* (a set: the ring is sorted, the list order is not seen)
  partitioner,          \* m.partitioner, "" while unset
  metadata,             \* atomic.Value: pointer to the published snapshot
  heap,                 \* ClusterMetadata objects by pointer
  readerRef,            \* pointer a reader got from getMetadataReadOnly
  readerSeen,           \* what that reader saw through it at that time
  lastOp,               \* the last call made and how it ended
  mu,                   \* m.mu: the goroutine that holds it, or "free"
  pc,                   \* where each writer goroutine is in its call
  call                  \* the call each writer goroutine is making

vars == <<layout, getKeyspaceMetadata, getKeyspaceName, logger, hosts,
          partitioner, metadata, heap, readerRef, readerSeen, lastOp,
          mu, pc, call>>

\* the state of the goroutines that run the calls step by step
lockVars == <<mu, pc, call>>

\* goroutines that deliver topology and schema events
Writers == {"w1", "w2"}

\* call[t] of a goroutine that is in no call; ptr is the working copy, base
\* the snapshot it was copied from
NoCall ==
  [name |-> "", args |-> <<>>, target |-> "", ptr |-> "nil", base |-> "nil",
   ans |-> NoAnswer, panicking |-> FALSE]

\* the working copies of the calls in progress
WorkPtrs == {call[t].ptr : t \in Writers} \ {"nil"}

\* ------------------------------------------------------------- token ring
\* nil *TokenRing
NilRing == [partitioner |-> "", tokens |-> <<>>]

\* zero value of ClusterMetadata: new(ClusterMetadata)
NoReplicas == [k \in {} |-> <<>>]
EmptyMeta == [replicas |-> NoReplicas, tokenRing |-> NilRing]

Range(s) == {s[i] : i \in 1..Len(s)}

\* order of ring entries: by token, ties by host identity
EntryLess(a, b) ==
  \/ a.token < b.token
  \/ a.token = b.token /\ HostRank(a.host) < HostRank(b.host)

RECURSIVE SortEntries(_)
SortEntries(S) ==
  IF S = {} THEN <<>>
  ELSE LET m == CHOOSE x \in S : \A y \in S \ {x} : EntryLess(x, y)
       IN <<m>> \o SortEntries(S \ {m})

\* newTokenRing(partitioner, hosts): the ring over all tokens of all hosts,
\* sorted; fails on an unknown partitioner or when no host carries a token
newTokenRing(p, hs) ==
  LET own == UNION {{[token |-> t, host |-> h] : t \in TokensOf(layout, h)} :
                      h \in hs}
  IN IF p \notin ValidPartitioners THEN [err |-> TRUE, ring |-> NilRing]
     ELSE IF own = {} THEN [err |-> TRUE, ring |-> NilRing]
     ELSE [err |-> FALSE, ring |-> [partitioner |-> p, tokens |-> SortEntries(own)]]

\* ClusterMetadata.TokenRing()
TokenRing(meta) == meta.tokenRing

\* resetTokenRing that builds a ring only while the snapshot has none
resetTokenRing_onlyFirst(meta, p, hs) ==
  IF p = "" \/ meta.tokenRing # NilRing THEN meta
  ELSE LET r == newTokenRing(p, hs)
       IN IF r.err THEN meta ELSE [meta EXCEPT !.tokenRing = r.ring]

\* resetTokenRing that drops the ring when the build fails
resetTokenRing_nilOnError(meta, p, hs) ==
  IF p = "" THEN meta
  ELSE LET r == newTokenRing(p, hs)
       IN [meta EXCEPT !.tokenRing = r.ring]

\* ClusterMetadata.resetTokenRing: the working copy after the call
resetTokenRing(meta, p, hs) ==
  IF p = "" THEN meta
  ELSE LET r == newTokenRing(p, hs)
       IN IF r.err THEN meta ELSE [meta EXCEPT !.tokenRing = r.ring]

\* ---------------------------------------------------------- replica maps
\* index of the ring entry that owns token t: the first entry whose token
\* is >= t, wrapping to the first entry
ownerIndex(tokens, t) ==
  IF \E i \in 1..Len(tokens) : tokens[i].token >= t
  THEN CHOOSE i \in 1..Len(tokens) :
         /\ tokens[i].token >= t
         /\ \A j \in 1..(i - 1) : tokens[j].token < t
  ELSE 1

\* TokenRing.ownerOf
ownerOf(ring, t) == ring.tokens[ownerIndex(ring.tokens, t)].host

\* the clockwise walk: from entry i, j entries already visited
RECURSIVE walkFrom(_, _, _, _, _)
walkFrom(tokens, i, j, count, acc) ==
  IF j >= Len(tokens) \/ Len(acc) >= count THEN acc
  ELSE LET h == tokens[((i - 1 + j) % Len(tokens)) + 1].host
       IN walkFrom(tokens, i, j + 1, count,
                   IF h \in Range(acc) THEN acc ELSE Append(acc, h))

\* TokenRing.replicaWalk
replicaWalk(ring, t, count) ==
  walkFrom(ring.tokens, ownerIndex(ring.tokens, t), 0, count, <<>>)

\* nil strategy
NilStrategy == [class |-> "", rf |-> 0]

\* getStrategy(ks, logger): nil for a class it does not know.  Of the
\* strategies only SimpleStrategy is modelled.
getStrategy(ks) ==
  IF ks.class = "SimpleStrategy" THEN [class |-> "SimpleStrategy", rf |-> ks.rf]
  ELSE NilStrategy

\* strat.replicaMap(tokenRing) for SimpleStrategy: one entry per ring token
replicaMap(strat, ring) ==
  [i \in 1..Len(ring.tokens) |->
     [token |-> ring.tokens[i].token,
      hosts |-> replicaWalk(ring, ring.tokens[i].token, strat.rf)]]

\* tokenRingReplicas lookup: the hosts of the entry that owns token t
replicasFor(rmap, t) == rmap[ownerIndex(rmap, t)].hosts

\* updateReplicas without the loop that carries the other keyspaces over
updateReplicas_noCarry(meta, keyspace, ans) ==
  LET strat == getStrategy(ans)
      computed == ~ans.err /\ strat # NilStrategy /\ meta.tokenRing # NilRing
      newReplicas ==
        [k \in (IF computed THEN {keyspace} ELSE {}) |->
           replicaMap(strat, meta.tokenRing)]
  IN [meta |-> [meta EXCEPT !.replicas = newReplicas], panicked |-> FALSE]

\* updateReplicas that returns early when the keyspace does not resolve
updateReplicas_returnOnError(meta, keyspace, ans) ==
  LET strat == getStrategy(ans)
      kept == DOMAIN meta.replicas \ {keyspace}
      newReplicas ==
        [k \in (IF meta.tokenRing # NilRing THEN {keyspace} ELSE {}) \cup kept |->
           IF k = keyspace THEN replicaMap(strat, meta.tokenRing)
           ELSE meta.replicas[k]]
  IN IF ans.err \/ strat = NilStrategy
     THEN [meta |-> meta, panicked |-> FALSE]
     ELSE [meta |-> [meta EXCEPT !.replicas = newReplicas], panicked |-> FALSE]

\* updateReplicas without the nil check of meta.tokenRing: replicaMap
\* dereferences the nil ring and the call panics
updateReplicas_noNilCheck(meta, keyspace, ans) ==
  LET strat == getStrategy(ans)
      resolved == ~ans.err /\ strat # NilStrategy
      kept == DOMAIN meta.replicas \ {keyspace}
      newReplicas ==
        [k \in (IF resolved THEN {keyspace} ELSE {}) \cup kept |->
           IF k = keyspace THEN replicaMap(strat, meta.tokenRing)
           ELSE meta.replicas[k]]
  IN IF resolved /\ meta.tokenRing = NilRing
     THEN [meta |-> meta, panicked |-> TRUE]
     ELSE [meta |-> [meta EXCEPT !.replicas = newReplicas], panicked |-> FALSE]

\* updateReplicas that computes a keyspace's replicas only while it has none
updateReplicas_onlyMissing(meta, keyspace, ans) ==
  LET strat == getStrategy(ans)
      computed == ~ans.err /\ strat # NilStrategy /\ meta.tokenRing # NilRing
      kept == DOMAIN meta.replicas
      newReplicas ==
        [k \in (IF computed THEN {keyspace} ELSE {}) \cup kept |->
           IF k \in kept THEN meta.replicas[k]
           ELSE replicaMap(strat, meta.tokenRing)]
  IN [meta |-> [meta EXCEPT !.replicas = newReplicas], panicked |-> FALSE]

\* updateReplicas that leaves a keyspace's previous replicas in place when
\* nothing is computed for it
updateReplicas_keepPrevious(meta, keyspace, ans) ==
  LET strat == getStrategy(ans)
      computed == ~ans.err /\ strat # NilStrategy /\ meta.tokenRing # NilRing
      kept == DOMAIN meta.replicas
      newReplicas ==
        [k \in (IF computed THEN {keyspace} ELSE {}) \cup kept |->
           IF k = keyspace /\ computed THEN replicaMap(strat, meta.tokenRing)
           ELSE meta.replicas[k]]
  IN [meta |-> [meta EXCEPT !.replicas = newReplicas], panicked |-> FALSE]

\* updateReplicas that stores an empty replica map for a resolved keyspace
\* while the working copy has no ring
updateReplicas_emptyOnNilRing(meta, keyspace, ans) ==
  LET strat == getStrategy(ans)
      resolved == ~ans.err /\ strat # NilStrategy
      kept == DOMAIN meta.replicas \ {keyspace}
      newReplicas ==
        [k \in (IF resolved THEN {keyspace} ELSE {}) \cup kept |->
           IF k # keyspace THEN meta.replicas[k]
           ELSE IF meta.tokenRing = NilRing THEN <<>>
           ELSE replicaMap(strat, meta.tokenRing)]
  IN [meta |-> [meta EXCEPT !.replicas = newReplicas], panicked |-> FALSE]

\* clusterMetadataManager.updateReplicas(meta, keyspace), ans being what
\* m.getKeyspaceMetadata(keyspace) answers: the working copy after the call
updateReplicas(meta, keyspace, ans) ==
  LET strat == getStrategy(ans)
      computed == ~ans.err /\ strat # NilStrategy /\ meta.tokenRing # NilRing
      kept == DOMAIN meta.replicas \ {keyspace}
      newReplicas ==
        [k \in (IF computed THEN {keyspace} ELSE {}) \cup kept |->
           IF k = keyspace THEN replicaMap(strat, meta.tokenRing)
           ELSE meta.replicas[k]]
  IN [meta |-> [meta EXCEPT !.replicas = newReplicas], panicked |-> FALSE]

\* ------------------------------------------------------------ host list
\* cowHostList.add: the list after the call
add(list, h) == list \cup {h}

\* cowHostList.remove: the list after the call
remove(list, h) == list \ {h}

\* the list after adding every host of hs in order (the loop of addHosts)
RECURSIVE addAll(_, _)
addAll(list, hs) ==
  IF hs = <<>> THEN list ELSE addAll(add(list, Head(hs)), Tail(hs))

\* -------------------------------------------------------------- snapshots
\* getMetadataReadOnly whose type assertion never succeeds
getMetadataReadOnly_nil == "nil"

\* clusterMetadataManager.getMetadataReadOnly(): the published pointer
getMetadataReadOnly == metadata

\* the object behind a pointer; the zero value stands in for nil
Deref(p) == IF p = "nil" THEN EmptyMeta ELSE heap[p]

\* getMetadataForUpdate that hands out the published object itself
getMetadataForUpdate_noCopy ==
  [ptr |-> IF metadata = "nil"
           THEN CHOOSE p \in Ptrs : p \notin {metadata, readerRef}
           ELSE metadata,
   val |-> Deref(getMetadataReadOnly)]

\* clusterMetadataManager.getMetadataForUpdate(): a new object holding a
\* shallow copy of the published one, or the zero value when there is none
getMetadataForUpdate ==
  [ptr |-> CHOOSE p \in Ptrs : p \notin {metadata, readerRef},
   val |-> Deref(getMetadataReadOnly)]

\* the heap once object p holds v and pointer pub is the published one;
\* objects neither published nor held by the reader are reclaimed
HeapAfter(p, v, pub) ==
  [q \in Ptrs |->
     IF q \notin {pub, readerRef} THEN EmptyMeta
     ELSE IF q = p THEN v ELSE heap[q]]

\* the body shared by setPartitioner, addHost, addHosts and removeHost once
\* hosts and partitioner have their new values hs and p: copy, rebuild the
\* ring, recompute the active keyspace's replicas, m.metadata.Store(meta)
RebuildAndStore(name, hs, p, ans) ==
  \E w \in {getMetadataForUpdate} :
  \E u \in {updateReplicas(resetTokenRing(w.val, p, hs),
                            CfgKeyspace(getKeyspaceName), ans)} :
     /\ hosts' = hs
     /\ partitioner' = p
     /\ IF u.panicked
        THEN UNCHANGED <<metadata, heap>>
        ELSE /\ heap' = HeapAfter(w.ptr, u.meta, w.ptr)
             /\ metadata' = w.ptr
     /\ lastOp' = [name |-> name, target |-> CfgKeyspace(getKeyspaceName),
                   ans |-> ans, published |-> ~u.panicked, panicked |-> u.panicked]
     /\ UNCHANGED <<layout, getKeyspaceMetadata, getKeyspaceName, logger,
                    readerRef, readerSeen, lockVars>>

\* lastOp of a call that asked no resolver and stored no snapshot
Returned(name, panicked) ==
  [name |-> name, target |-> "", ans |-> NoAnswer, published |-> FALSE,
   panicked |-> panicked]

\* a call that returns without touching anything
NoOp(name) ==
  /\ lastOp' = Returned(name, FALSE)
  /\ UNCHANGED <<layout, getKeyspaceMetadata, getKeyspaceName, logger, hosts,
                 partitioner, metadata, heap, readerRef, readerSeen, lockVars>>

\* ------------------------------------------------------------- operations
\* the collaborators are nil function values until init has run; the owning
\* session calls init while it is constructed, before it delivers any event
Initialized == getKeyspaceMetadata # "nil"

\* init without the check for an earlier call
init_noGuard(s) ==
  /\ getKeyspaceMetadata' = s
  /\ getKeyspaceName' = s
  /\ logger' = s
  /\ lastOp' = Returned("init", FALSE)
  /\ UNCHANGED <<layout, hosts, partitioner, metadata, heap, readerRef, readerSeen,
                 lockVars>>

\* clusterMetadataManager.init(s)
init(s) ==
  /\ IF getKeyspaceMetadata # "nil"
     THEN /\ lastOp' = Returned("init", TRUE)
          /\ UNCHANGED <<getKeyspaceMetadata, getKeyspaceName, logger>>
     ELSE /\ getKeyspaceMetadata' = s
          /\ getKeyspaceName' = s
          /\ logger' = s
          /\ lastOp' = Returned("init", FALSE)
  /\ UNCHANGED <<layout, hosts, partitioner, metadata, heap, readerRef, readerSeen,
                 lockVars>>

\* clusterMetadataManager.keyspaceChanged(update), ks being update.Keyspace
keyspaceChanged(ks, ans) ==
  /\ Initialized
  /\ \E w \in {getMetadataForUpdate} :
     \E u \in {updateReplicas(w.val, ks, ans)} :
        /\ IF u.panicked
           THEN UNCHANGED <<metadata, heap>>
           ELSE /\ heap' = HeapAfter(w.ptr, u.meta, w.ptr)
                /\ metadata' = w.ptr
        /\ lastOp' = [name |-> "keyspaceChanged", target |-> ks, ans |-> ans,
                      published |-> ~u.panicked, panicked |-> u.panicked]
  /\ UNCHANGED <<layout, getKeyspaceMetadata, getKeyspaceName, logger, hosts,
                 partitioner, readerRef, readerSeen, lockVars>>

\* setPartitioner without the comparison with the stored name
setPartitioner_always(p, ans) ==
  /\ Initialized
  /\ RebuildAndStore("setPartitioner", hosts, p, ans)

\* clusterMetadataManager.setPartitioner(partitioner)
setPartitioner(p, ans) ==
  /\ Initialized
  /\ IF partitioner # p
     THEN RebuildAndStore("setPartitioner", hosts, p, ans)
     ELSE NoOp("setPartitioner")

\* addHost that rebuilds and publishes whatever hosts.add returned
addHost_always(h, ans) ==
  /\ Initialized
  /\ RebuildAndStore("addHost", add(hosts, h), partitioner, ans)

\* clusterMetadataManager.addHost(host)
addHost(h, ans) ==
  /\ Initialized
  /\ IF add(hosts, h) # hosts
     THEN RebuildAndStore("addHost", add(hosts, h), partitioner, ans)
     ELSE NoOp("addHost")

\* addHosts that rebuilds and publishes only when some host was new
addHosts_ifChanged(hs, ans) ==
  /\ Initialized
  /\ IF addAll(hosts, hs) # hosts
     THEN RebuildAndStore("addHosts", addAll(hosts, hs), partitioner, ans)
     ELSE NoOp("addHosts")

\* clusterMetadataManager.addHosts(hosts)
addHosts(hs, ans) ==
  /\ Initialized
  /\ RebuildAndStore("addHosts", addAll(hosts, hs), partitioner, ans)

\* removeHost that rebuilds and publishes whatever hosts.remove returned
removeHost_always(h, ans) ==
  /\ Initialized
  /\ RebuildAndStore("removeHost", remove(hosts, h), partitioner, ans)

\* clusterMetadataManager.removeHost(host)
removeHost(h, ans) ==
  /\ Initialized
  /\ IF remove(hosts, h) # hosts
     THEN RebuildAndStore("removeHost", remove(hosts, h), partitioner, ans)
     ELSE NoOp("removeHost")

\* a reader that takes m.mu before it loads the pointer
Read_locked ==
  /\ mu = "free"
  /\ readerRef' = getMetadataReadOnly
  /\ readerSeen' = Deref(getMetadataReadOnly)
  /\ heap' = [q \in Ptrs |->
                IF q \in {metadata} \cup WorkPtrs THEN heap[q] ELSE EmptyMeta]
  /\ lastOp' = Returned("getMetadataReadOnly", FALSE)
  /\ UNCHANGED <<layout, getKeyspaceMetadata, getKeyspaceName, logger, hosts,
                 partitioner, metadata, lockVars>>

\* a query-path reader calls getMetadataReadOnly and keeps the pointer; the
\* object it held before is reclaimed unless it is published or in the works
Read ==
  /\ readerRef' = getMetadataReadOnly
  /\ readerSeen' = Deref(getMetadataReadOnly)
  /\ heap' = [q \in Ptrs |->
                IF q \in {metadata} \cup WorkPtrs THEN heap[q] ELSE EmptyMeta]
  /\ lastOp' = Returned("getMetadataReadOnly", FALSE)
  /\ UNCHANGED <<layout, getKeyspaceMetadata, getKeyspaceName, logger, hosts,
                 partitioner, metadata, lockVars>>

\* --------------------------------------------------------- specification
\* a manager as constructed, the hosts' tokens following a layout of L
InitOver(L) ==
  /\ layout \in L
  /\ getKeyspaceMetadata = "nil"
  /\ getKeyspaceName = "nil"
  /\ logger = "nil"
  /\ hosts = {}
  /\ partitioner = ""
  /\ metadata = "nil"
  /\ heap = [q \in Ptrs |-> EmptyMeta]
  /\ readerRef = "nil"
  /\ readerSeen = EmptyMeta
  /\ lastOp = Returned("new", FALSE)
  /\ mu = "free"
  /\ pc = [t \in Writers |-> "idle"]
  /\ call = [t \in Writers |-> NoCall]

\* the calls the driver makes, with sessions drawn from S, hosts from H,
\* host lists from HL and partitioner names from P
Writes(S, H, HL, P) ==
  \/ \E s \in S : init(s)
  \/ \E ks \in Keyspaces, ans \in KeyspaceAnswers : keyspaceChanged(ks, ans)
  \/ \E p \in P, ans \in KeyspaceAnswers : setPartitioner(p, ans)
  \/ \E h \in H, ans \in KeyspaceAnswers : addHost(h, ans)
  \/ \E hs \in HL, ans \in KeyspaceAnswers : addHosts(hs, ans)
  \/ \E h \in H, ans \in KeyspaceAnswers : removeHost(h, ans)

\* three hosts, valid and unknown partitioner names
Hosts3 == {"A", "B", "C"}
HostLists3 == HostLists(Hosts3)
Next == Writes(Sessions, Hosts3, HostLists3, PartitionerNames)

Init == InitOver(Layouts)

Spec == Init /\ [][Next]_vars

\* two hosts, and a reader that takes the published pointer and keeps it
Hosts2 == {"A", "B"}
HostLists2 == HostLists(Hosts2)
NextReader == Writes({"s1"}, Hosts2, HostLists2, ValidPartitioners) \/ Read

InitReader == InitOver({"single"})

SpecReader == InitReader /\ [][NextReader]_vars

\* all four hosts under a partitioner the ring knows
HostLists4 == HostLists(Hosts)
NextRing == Writes({"s1"}, Hosts, HostLists4, ValidPartitioners)

SpecRing == Init /\ [][NextRing]_vars

\* ------------------------------------------------- the calls step by step
\* everything but the goroutines' own state
dataVars == <<layout, getKeyspaceMetadata, getKeyspaceName, logger, hosts,
              partitioner, metadata, heap, readerRef, readerSeen, lastOp>>

\* the resolver's answers in the step-by-step specifications
LockAnswers == {a \in KeyspaceAnswers : a.rf <= 1}

\* goroutine t calls method name with arguments args and arrives at
\* m.mu.Lock()
Call(t, name, args) ==
  /\ pc[t] = "idle"
  /\ name # "init" => Initialized
  /\ pc' = [pc EXCEPT ![t] = "waiting"]
  /\ call' = [call EXCEPT ![t] = [NoCall EXCEPT !.name = name, !.args = args]]
  /\ UNCHANGED <<dataVars, mu>>

\* a Lock that returns at once, whoever holds the mutex
Lock_noWait(t) ==
  /\ pc[t] = "waiting"
  /\ mu' = t
  /\ pc' = [pc EXCEPT ![t] = "entered"]
  /\ UNCHANGED <<dataVars, call>>

\* m.mu.Lock() returns in goroutine t
Lock(t) ==
  /\ pc[t] = "waiting"
  /\ mu = "free"
  /\ mu' = t
  /\ pc' = [pc EXCEPT ![t] = "entered"]
  /\ UNCHANGED <<dataVars, call>>

\* init whose Unlock is the last statement instead of deferred: the panic
\* unwinds past it
initLocked_noDefer(t) ==
  /\ pc[t] = "entered"
  /\ call[t].name = "init"
  /\ IF getKeyspaceMetadata # "nil"
     THEN /\ call' = [call EXCEPT ![t] = NoCall]
          /\ pc' = [pc EXCEPT ![t] = "idle"]
          /\ UNCHANGED <<getKeyspaceMetadata, getKeyspaceName, logger>>
     ELSE /\ getKeyspaceMetadata' = call[t].args[1]
          /\ getKeyspaceName' = call[t].args[1]
          /\ logger' = call[t].args[1]
          /\ pc' = [pc EXCEPT ![t] = "unlocking"]
          /\ UNCHANGED call
  /\ UNCHANGED <<layout, hosts, partitioner, metadata, heap, readerRef, readerSeen,
                 lastOp, mu>>

\* the body of init under the lock: panic, or bind the collaborators; the
\* deferred Unlock is what comes next either way
initLocked(t) ==
  /\ pc[t] = "entered"
  /\ call[t].name = "init"
  /\ IF getKeyspaceMetadata # "nil"
     THEN /\ call' = [call EXCEPT ![t].panicking = TRUE]
          /\ UNCHANGED <<getKeyspaceMetadata, getKeyspaceName, logger>>
     ELSE /\ getKeyspaceMetadata' = call[t].args[1]
          /\ getKeyspaceName' = call[t].args[1]
          /\ logger' = call[t].args[1]
          /\ UNCHANGED call
  /\ pc' = [pc EXCEPT ![t] = "unlocking"]
  /\ UNCHANGED <<layout, hosts, partitioner, metadata, heap, readerRef, readerSeen,
                 lastOp, mu>>

\* BeginUpdate that gives the lock up for the time of the resolver call
BeginUpdate_unlocked(t, hs, p, ks, reset) ==
  \E w \in {getMetadataForUpdate} :
     /\ hosts' = hs
     /\ partitioner' = p
     /\ heap' = [heap EXCEPT ![w.ptr] =
                   IF reset THEN resetTokenRing(w.val, p, hs) ELSE w.val]
     /\ call' = [call EXCEPT ![t].ptr = w.ptr, ![t].base = metadata,
                             ![t].target = ks]
     /\ pc' = [pc EXCEPT ![t] = "resolving"]
     /\ mu' = "free"
     /\ UNCHANGED <<layout, getKeyspaceMetadata, getKeyspaceName, logger, metadata,
                    readerRef, readerSeen, lastOp>>

\* under the lock, up to the resolver call inside updateReplicas: hosts and
\* partitioner get their new values hs and p, the published snapshot is
\* copied, the copy's ring is rebuilt when reset is set, and
\* m.getKeyspaceMetadata(ks) is called
BeginUpdate(t, hs, p, ks, reset) ==
  \E w \in {getMetadataForUpdate} :
     /\ hosts' = hs
     /\ partitioner' = p
     /\ heap' = [heap EXCEPT ![w.ptr] =
                   IF reset THEN resetTokenRing(w.val, p, hs) ELSE w.val]
     /\ call' = [call EXCEPT ![t].ptr = w.ptr, ![t].base = metadata,
                             ![t].target = ks]
     /\ pc' = [pc EXCEPT ![t] = "resolving"]
     /\ UNCHANGED <<layout, getKeyspaceMetadata, getKeyspaceName, logger, metadata,
                    readerRef, readerSeen, lastOp, mu>>

\* under the lock, the test of the call came out false: nothing to do
SkipUpdate(t) ==
  /\ pc' = [pc EXCEPT ![t] = "unlocking"]
  /\ UNCHANGED <<dataVars, mu, call>>

\* keyspaceChanged under the lock, up to the resolver call
keyspaceChangedLocked(t) ==
  /\ pc[t] = "entered"
  /\ call[t].name = "keyspaceChanged"
  /\ BeginUpdate(t, hosts, partitioner, call[t].args[1], FALSE)

\* setPartitioner under the lock, up to the resolver call
setPartitionerLocked(t) ==
  /\ pc[t] = "entered"
  /\ call[t].name = "setPartitioner"
  /\ IF partitioner # call[t].args[1]
     THEN BeginUpdate(t, hosts, call[t].args[1], CfgKeyspace(getKeyspaceName), TRUE)
     ELSE SkipUpdate(t)

\* addHost under the lock, up to the resolver call
addHostLocked(t) ==
  /\ pc[t] = "entered"
  /\ call[t].name = "addHost"
  /\ IF add(hosts, call[t].args[1]) # hosts
     THEN BeginUpdate(t, add(hosts, call[t].args[1]), partitioner,
                      CfgKeyspace(getKeyspaceName), TRUE)
     ELSE SkipUpdate(t)

\* addHosts under the lock, up to the resolver call
addHostsLocked(t) ==
  /\ pc[t] = "entered"
  /\ call[t].name = "addHosts"
  /\ BeginUpdate(t, addAll(hosts, call[t].args), partitioner,
                 CfgKeyspace(getKeyspaceName), TRUE)

\* removeHost under the lock, up to the resolver call
removeHostLocked(t) ==
  /\ pc[t] = "entered"
  /\ call[t].name = "removeHost"
  /\ IF remove(hosts, call[t].args[1]) # hosts
     THEN BeginUpdate(t, remove(hosts, call[t].args[1]), partitioner,
                      CfgKeyspace(getKeyspaceName), TRUE)
     ELSE SkipUpdate(t)

\* the resolver call of goroutine t returns ans and updateReplicas runs to
\* its end on the working copy
updateReplicasLocked(t, ans) ==
  /\ pc[t] = "resolving"
  /\ \E u \in {updateReplicas(heap[call[t].ptr], call[t].target, ans)} :
       heap' = [heap EXCEPT ![call[t].ptr] = u.meta]
  /\ call' = [call EXCEPT ![t].ans = ans]
  /\ pc' = [pc EXCEPT ![t] = "storing"]
  /\ UNCHANGED <<layout, getKeyspaceMetadata, getKeyspaceName, logger, hosts,
                 partitioner, metadata, readerRef, readerSeen, lastOp, mu>>

\* m.metadata.Store(meta) in goroutine t
Store(t) ==
  /\ pc[t] = "storing"
  /\ metadata' = call[t].ptr
  /\ heap' = HeapAfter(call[t].ptr, heap[call[t].ptr], call[t].ptr)
  /\ pc' = [pc EXCEPT ![t] = "unlocking"]
  /\ UNCHANGED <<layout, getKeyspaceMetadata, getKeyspaceName, logger, hosts,
                 partitioner, readerRef, readerSeen, lastOp, mu, call>>

\* the deferred m.mu.Unlock() of goroutine t runs and the call is over; a
\* panicking init unwinds on to its caller
Unlock(t) ==
  /\ pc[t] = "unlocking"
  /\ mu' = "free"
  /\ pc' = [pc EXCEPT ![t] = "idle"]
  /\ call' = [call EXCEPT ![t] = NoCall]
  /\ UNCHANGED dataVars

\* the calls the goroutines make, over hosts H and host lists HL
CallsOver(H, HL) ==
  {<<"init", <<"s1">>>>}
    \cup {<<"keyspaceChanged", <<k>>>> : k \in Keyspaces}
    \cup {<<"setPartitioner", <<p>>>> : p \in ValidPartitioners}
    \cup {<<"addHost", <<h>>>> : h \in H}
    \cup {<<"addHosts", hl>> : hl \in HL}
    \cup {<<"removeHost", <<h>>>> : h \in H}

\* the steps of the writer goroutines W
Steps(W, H, HL) ==
  \/ \E t \in W, c \in CallsOver(H, HL) : Call(t, c[1], c[2])
  \/ \E t \in W : Lock(t)
  \/ \E t \in W : initLocked(t)
  \/ \E t \in W : keyspaceChangedLocked(t)
  \/ \E t \in W : setPartitionerLocked(t)
  \/ \E t \in W : addHostLocked(t)
  \/ \E t \in W : addHostsLocked(t)
  \/ \E t \in W : removeHostLocked(t)
  \/ \E t \in W, ans \in LockAnswers : updateReplicasLocked(t, ans)
  \/ \E t \in W : Store(t)
  \/ \E t \in W : Unlock(t)

\* two writer goroutines over one host
Hosts1 == {"A"}
HostLists1 == HostLists(Hosts1)
NextLock == Steps(Writers, Hosts1, HostLists1)

SpecLock == InitReader /\ [][NextLock]_vars

\* what goroutine t does between Lock and the end of its call; the resolver
\* is taken to return
Critical(t) ==
  \/ initLocked(t)
  \/ keyspaceChangedLocked(t)
  \/ setPartitionerLocked(t)
  \/ addHostLocked(t)
  \/ addHostsLocked(t)
  \/ removeHostLocked(t)
  \/ \E ans \in LockAnswers : updateReplicasLocked(t, ans)
  \/ Store(t)
  \/ Unlock(t)

\* a goroutine that holds the lock keeps running, and sync.Mutex hands the
\* lock to a goroutine that keeps waiting for it (starvation mode)
SpecLockFair ==
  SpecLock /\ \A t \in Writers : WF_vars(Critical(t)) /\ SF_vars(Lock(t))

\* one writer goroutine and a reader
NextStall == Steps({"w1"}, Hosts2, HostLists2) \/ Read

SpecStall == InitReader /\ [][NextStall]_vars

\* ------------------------------------------------------------------ claims
\* the snapshot a reader gets now
Snapshot == Deref(getMetadataReadOnly)

\* the ring entries the registered hosts hs call for
HostEntries(hs) ==
  {e \in [token : UNION {TokensOf(layout, h) : h \in hs}, host : hs] :
     e.token \in TokensOf(layout, e.host)}

\* the entries of a ring; none for the nil ring
RingEntries(ring) == Range(ring.tokens)

\* ring holds exactly the tokens of hosts hs, in ascending order
RingReflects(ring, hs) ==
  /\ RingEntries(ring) = HostEntries(hs)
  /\ Len(ring.tokens) = Cardinality(HostEntries(hs))
  /\ \A i \in 1..(Len(ring.tokens) - 1) : ring.tokens[i].token < ring.tokens[i + 1].token

\* replica map rmap is what some SimpleStrategy computes from ring
ComputedFrom(rmap, ring) ==
  /\ ring # NilRing
  /\ \E n \in 1..MaxRF :
       rmap = replicaMap([class |-> "SimpleStrategy", rf |-> n], ring)

\* C1: in every published snapshot, each keyspace's replica map was computed
\* from the token ring of that same snapshot.
C1_RingAndReplicasConsistent ==
  metadata # "nil" =>
    \A k \in DOMAIN Snapshot.replicas :
      ComputedFrom(Snapshot.replicas[k], TokenRing(Snapshot))

\* C2 as stated: after addHost/removeHost under a valid partitioner, the
\* published ring holds exactly the tokens of the registered hosts.
C2_RingReflectsEveryHostSet ==
  (lastOp.name \in {"addHost", "removeHost"} /\ partitioner \in ValidPartitioners)
    => metadata # "nil" /\ RingReflects(TokenRing(Snapshot), hosts)

\* C2 amended: after addHost/removeHost under a valid partitioner, the
\* published ring holds exactly the tokens of the registered hosts, provided
\* some registered host carries a token.
C2_RingReflectsHostsWithTokens ==
  (/\ lastOp.name \in {"addHost", "removeHost"}
   /\ partitioner \in ValidPartitioners
   /\ HostEntries(hosts) # {})
    => metadata # "nil" /\ RingReflects(TokenRing(Snapshot), hosts)

\* a host was removed, two hosts with tokens remain and the ring shows them
C2_Witness ==
  /\ lastOp.name = "removeHost"
  /\ lastOp.published
  /\ partitioner \in ValidPartitioners
  /\ Cardinality(hosts) = 2
  /\ Cardinality(HostEntries(hosts)) >= 2
  /\ RingReflects(TokenRing(Snapshot), hosts)

\* C3: what a reader sees through a pointer it got from
\* getMetadataReadOnly never changes, whatever the writers publish later.
C3_HeldSnapshotNeverChanges ==
  readerRef # "nil" => heap[readerRef] = readerSeen

\* the reader still holds an older snapshot, the writers have published
\* another ring and other replicas since
C3_Witness ==
  /\ readerRef # "nil"
  /\ metadata # readerRef
  /\ lastOp.name = "addHost"
  /\ TokenRing(Snapshot) # TokenRing(readerSeen)
  /\ Snapshot.replicas # readerSeen.replicas
  /\ DOMAIN readerSeen.replicas # {}

\* C4: addHost of a host that is already registered stores nothing and
\* leaves the published pointer, the hosts and the partitioner as they were;
\* addHost of a new host registers it and publishes one new snapshot.
C4_AddHostIdempotent ==
  [][lastOp'.name = "addHost" =>
       IF hosts' = hosts
       THEN /\ ~lastOp'.published
            /\ UNCHANGED <<metadata, heap, partitioner>>
       ELSE /\ \E h \in Hosts \ hosts : hosts' = hosts \cup {h}
            /\ lastOp'.published
            /\ metadata' \notin {"nil", metadata}
            /\ UNCHANGED partitioner]_vars

\* addHost returned without publishing: its host was registered before
C4_Witness ==
  /\ lastOp.name = "addHost"
  /\ ~lastOp.published
  /\ hosts # {}
  /\ metadata # "nil"

\* C5: keyspaceChanged(K) publishes a new snapshot in which every other
\* keyspace that had a replica map has the very same one, and the ring, the
\* hosts and the partitioner are as before.
C5_KeyspaceChangedIsScoped ==
  [][lastOp'.name = "keyspaceChanged" =>
       /\ lastOp'.published
       /\ metadata' \notin {"nil", metadata}
       /\ \A k \in DOMAIN Snapshot.replicas \ {lastOp'.target} :
            /\ k \in DOMAIN Snapshot'.replicas
            /\ Snapshot'.replicas[k] = Snapshot.replicas[k]
       /\ TokenRing(Snapshot') = TokenRing(Snapshot)
       /\ UNCHANGED <<hosts, partitioner>>]_vars

\* keyspaceChanged has recomputed one keyspace next to another populated one
C5_Witness ==
  /\ lastOp.name = "keyspaceChanged"
  /\ lastOp.published
  /\ lastOp.ans.class = "SimpleStrategy"
  /\ DOMAIN Snapshot.replicas = Keyspaces
  /\ \E k \in Keyspaces \ {lastOp.target} :
       Snapshot.replicas[k] # Snapshot.replicas[lastOp.target]

\* the resolver answered with an error or with no usable strategy
Failing(ans) ==
  ans \in KeyspaceAnswers /\ (ans.err \/ getStrategy(ans) = NilStrategy)

\* the ring a rebuild leaves in the snapshot: the one of the hosts when the
\* build can succeed, else the previous one
RingIsCurrent ==
  IF partitioner' \in ValidPartitioners /\ HostEntries(hosts)' # {}
  THEN RingReflects(TokenRing(Snapshot'), hosts')
  ELSE TokenRing(Snapshot') = TokenRing(Snapshot)

\* C6: when the resolver fails for the target keyspace of a mutating call,
\* a snapshot is published all the same; it has no entry for that keyspace,
\* every other keyspace's previous entry, and the current ring.
C6_ResolutionFailureContained ==
  [][Failing(lastOp'.ans) =>
       /\ lastOp'.published
       /\ metadata' \notin {"nil", metadata}
       /\ lastOp'.target \notin DOMAIN Snapshot'.replicas
       /\ \A k \in DOMAIN Snapshot.replicas \ {lastOp'.target} :
            /\ k \in DOMAIN Snapshot'.replicas
            /\ Snapshot'.replicas[k] = Snapshot.replicas[k]
       /\ IF lastOp'.name = "keyspaceChanged"
          THEN TokenRing(Snapshot') = TokenRing(Snapshot)
          ELSE RingIsCurrent]_vars

\* the resolver failed for the target, whose entry is gone, while the other
\* keyspace's entry and the ring are there
C6_Witness ==
  /\ lastOp.ans.err
  /\ lastOp.published
  /\ TokenRing(Snapshot) # NilRing
  /\ DOMAIN Snapshot.replicas = Keyspaces \ {lastOp.target}

\* C7: init on a manager that is already initialized panics, each time, and
\* leaves the resolver, keyspace-name and logger bindings of the first init.
C7_ReInitPanics ==
  [][lastOp'.name = "init" =>
       IF getKeyspaceMetadata # "nil"
       THEN /\ lastOp'.panicked
            /\ UNCHANGED <<getKeyspaceMetadata, getKeyspaceName, logger>>
       ELSE /\ ~lastOp'.panicked
            /\ getKeyspaceMetadata' # "nil"]_vars

\* a second init has panicked on an initialized manager
C7_Witness ==
  /\ lastOp.name = "init"
  /\ lastOp.panicked
  /\ getKeyspaceMetadata # "nil"
  /\ getKeyspaceName = getKeyspaceMetadata
  /\ logger = getKeyspaceMetadata

\* C8: while no partitioner has been set, addHost does not panic and the
\* snapshot it publishes has a nil token ring.
C8_NoPartitionerNoRing ==
  partitioner = "" =>
    /\ metadata # "nil" => TokenRing(Snapshot) = NilRing
    /\ lastOp.name = "addHost" => ~lastOp.panicked /\ metadata # "nil"

\* a second host was added, with a resolvable keyspace, before any partitioner
C8_Witness ==
  /\ partitioner = ""
  /\ lastOp.name = "addHost"
  /\ lastOp.published
  /\ lastOp.ans.class = "SimpleStrategy"
  /\ Cardinality(hosts) >= 2
  /\ TokenRing(Snapshot) = NilRing

\* C9 as stated: getMetadataReadOnly returns nil as long as the partitioner
\* is not known or no host is registered.
C9_NilUntilPartitionerAndHosts ==
  (partitioner = "" \/ hosts = {}) => getMetadataReadOnly = "nil"

\* C9 amended: getMetadataReadOnly returns the pointer of the latest Store,
\* and nil exactly until the first Store; a Store needs neither a partitioner
\* nor hosts.
C9_ReadReturnsLatestStore ==
  [][/\ lastOp'.name = "getMetadataReadOnly" =>
          /\ readerRef' = metadata
          /\ readerSeen' = Snapshot
          /\ UNCHANGED metadata
     /\ lastOp'.published => metadata' \notin {"nil", metadata}
     /\ ~lastOp'.published => UNCHANGED metadata
     /\ (lastOp'.name \in {"keyspaceChanged", "addHosts"} \/ hosts' # hosts
           \/ partitioner' # partitioner) => lastOp'.published]_vars

\* a reader got a snapshot while no partitioner was known
C9_Witness ==
  /\ lastOp.name = "getMetadataReadOnly"
  /\ readerRef # "nil"
  /\ readerRef = metadata
  /\ partitioner = ""

\* tokens looked up in a replica map
QueryTokens == {0, 5, 10, 25, 30, 55, 60, 80, 90, 100}

\* the hosts met walking the ring clockwise from entry i, whole turn
Turn(ring, i) ==
  [j \in 1..Len(ring.tokens) |->
     ring.tokens[((i - 1 + j - 1) % Len(ring.tokens)) + 1].host]

\* the first n distinct hosts of a sequence of hosts, in order of appearance
FirstDistinct(seq, n) ==
  LET firsts == {j \in 1..Len(seq) : \A i \in 1..(j - 1) : seq[i] # seq[j]}
      nth(k) == CHOOSE j \in firsts : Cardinality({i \in firsts : i < j}) = k - 1
      len == IF Cardinality(firsts) < n THEN Cardinality(firsts) ELSE n
  IN [k \in 1..len |-> seq[nth(k)]]

\* C10: under SimpleStrategy(N) the replicas of a token are the first N
\* distinct hosts met walking the ring clockwise from the token's owner; with
\* A, B, C, D at 0, 25, 50, 75 and N = 2, token 10 has replicas B, C.
C10_SimpleStrategyReplicas ==
  (/\ lastOp.published
   /\ lastOp.ans.class = "SimpleStrategy"
   /\ TokenRing(Snapshot) # NilRing)
    => /\ lastOp.target \in DOMAIN Snapshot.replicas
       /\ \A t \in QueryTokens :
            replicasFor(Snapshot.replicas[lastOp.target], t)
              = FirstDistinct(Turn(TokenRing(Snapshot),
                                   ownerIndex(TokenRing(Snapshot).tokens, t)),
                              lastOp.ans.rf)
       /\ (hosts = Hosts /\ layout = "single" /\ lastOp.ans.rf = 2
             /\ partitioner \in ValidPartitioners)
            => replicasFor(Snapshot.replicas[lastOp.target], 10) = <<"B", "C">>

\* the example ring: four hosts, one token each, replication factor 2
C10_Witness ==
  /\ lastOp.published
  /\ lastOp.ans.class = "SimpleStrategy"
  /\ lastOp.ans.rf = 2
  /\ hosts = Hosts
  /\ layout = "single"
  /\ Len(TokenRing(Snapshot).tokens) = 4
  /\ replicasFor(Snapshot.replicas[lastOp.target], 10) = <<"B", "C">>

\* C11 as stated: when the resolver fails for a keyspace that has a replica
\* map in the current snapshot, the snapshot published next holds that same
\* replica map for it.
C11_FailureKeepsPreviousMap ==
  [][(Failing(lastOp'.ans) /\ lastOp'.target \in DOMAIN Snapshot.replicas) =>
       /\ lastOp'.published
       /\ lastOp'.target \in DOMAIN Snapshot'.replicas
       /\ Snapshot'.replicas[lastOp'.target] = Snapshot.replicas[lastOp'.target]]_vars

\* C11 amended: when the resolver fails for a keyspace that has a replica
\* map in the current snapshot, the snapshot published next has none for it;
\* the hosts and the partitioner take the values the call gives them.
C11_FailureDropsPreviousMap ==
  [][(Failing(lastOp'.ans) /\ lastOp'.target \in DOMAIN Snapshot.replicas) =>
       /\ lastOp'.published
       /\ metadata' # metadata
       /\ DOMAIN Snapshot'.replicas = DOMAIN Snapshot.replicas \ {lastOp'.target}
       /\ lastOp'.name = "keyspaceChanged" => UNCHANGED <<hosts, partitioner>>
       /\ lastOp'.name = "setPartitioner" =>
            partitioner' # partitioner /\ UNCHANGED hosts
       /\ lastOp'.name = "addHost" =>
            Cardinality(hosts') = Cardinality(hosts) + 1 /\ UNCHANGED partitioner
       /\ lastOp'.name = "removeHost" =>
            Cardinality(hosts') = Cardinality(hosts) - 1 /\ UNCHANGED partitioner
       /\ lastOp'.name = "addHosts" =>
            hosts \subseteq hosts' /\ UNCHANGED partitioner]_vars

\* a host was added while the resolver failed for the active keyspace: the
\* keyspace has lost its replica map, the ring has the new host
C11_Witness ==
  /\ lastOp.name = "addHost"
  /\ Failing(lastOp.ans)
  /\ lastOp.published
  /\ lastOp.target \notin DOMAIN Snapshot.replicas
  /\ DOMAIN Snapshot.replicas # {}
  /\ RingReflects(TokenRing(Snapshot), hosts)
  /\ Cardinality(hosts) = 2

\* the calls that rebuild the token ring
RingOps == {"setPartitioner", "addHost", "addHosts", "removeHost"}

\* the step is a ring-rebuilding call that got as far as resetTokenRing
Rebuilt == lastOp'.name \in RingOps /\ lastOp'.ans \in KeyspaceAnswers

\* C12: when newTokenRing fails in setPartitioner, addHost, addHosts or
\* removeHost, a new snapshot is published all the same and it carries the
\* token ring of the previous snapshot, nil if there was none.
C12_RingBuildFailureKeepsRing ==
  [][(Rebuilt /\ partitioner' # "" /\ newTokenRing(partitioner', hosts').err) =>
       /\ lastOp'.published
       /\ metadata' \notin {"nil", metadata}
       /\ TokenRing(Snapshot') = TokenRing(Snapshot)]_vars

\* setPartitioner stored a name the ring does not know: the snapshot it
\* published still has the ring built under the earlier partitioner
C12_Witness ==
  /\ lastOp.name = "setPartitioner"
  /\ lastOp.published
  /\ partitioner \notin ValidPartitioners
  /\ hosts # {}
  /\ newTokenRing(partitioner, hosts).err
  /\ TokenRing(Snapshot) # NilRing
  /\ TokenRing(Snapshot).partitioner \in ValidPartitioners

\* the keyspace the mutating calls other than keyspaceChanged recompute
ActiveKeyspace == CfgKeyspace(getKeyspaceName)

\* the step has stored a new object whose replicas are those of
\* updateReplicas for keyspace k and answer ans: k's map computed from the
\* new snapshot's ring, or absent; every other keyspace's map carried over
StoredFor(k, ans) ==
  /\ metadata' \notin {"nil", metadata}
  /\ IF ~Failing(ans) /\ TokenRing(Snapshot') # NilRing
     THEN /\ k \in DOMAIN Snapshot'.replicas
          /\ Snapshot'.replicas[k] = replicaMap(getStrategy(ans), TokenRing(Snapshot'))
     ELSE k \notin DOMAIN Snapshot'.replicas
  /\ DOMAIN Snapshot'.replicas \ {k} = DOMAIN Snapshot.replicas \ {k}
  /\ \A o \in DOMAIN Snapshot.replicas \ {k} :
       Snapshot'.replicas[o] = Snapshot.replicas[o]

\* the call of the step has published such an object
Republished(k, ans) == lastOp'.published /\ StoredFor(k, ans)

\* C16: every addHosts call registers all hosts of its list and publishes
\* one new snapshot, also when no host was new or the list is empty; the
\* ring is rebuilt from all registered hosts and the active keyspace's
\* replica map is recomputed.
C16_AddHostsUnconditional ==
  [][lastOp'.name = "addHosts" =>
       /\ hosts \subseteq hosts'
       /\ \A hs \in HostLists2 :
            hosts' = addAll(hosts, hs) => hosts' = hosts \cup Range(hs)
       /\ UNCHANGED partitioner
       /\ RingIsCurrent
       /\ Republished(ActiveKeyspace, lastOp'.ans)]_vars

\* addHosts with an empty list on an empty registry has published
C16_Witness ==
  /\ lastOp.name = "addHosts"
  /\ lastOp.published
  /\ hosts = {}
  /\ metadata # "nil"

\* C17: setPartitioner(p) stores and publishes nothing when p is the stored
\* partitioner; otherwise it stores p, rebuilds the ring from the registered
\* hosts, recomputes the active keyspace's replica map only and publishes
\* one new snapshot.
C17_SetPartitionerOnChangeOnly ==
  [][lastOp'.name = "setPartitioner" =>
       \A p \in PartitionerNames :
         setPartitioner(p, lastOp'.ans) =>
           IF p = partitioner
           THEN /\ ~lastOp'.published
                /\ UNCHANGED <<partitioner, metadata, heap, hosts>>
           ELSE /\ partitioner' = p
                /\ UNCHANGED hosts
                /\ RingIsCurrent
                /\ Republished(ActiveKeyspace, lastOp'.ans)]_vars

\* setPartitioner returned without publishing: the name was the stored one
C17_Witness ==
  /\ lastOp.name = "setPartitioner"
  /\ ~lastOp.published
  /\ partitioner \in ValidPartitioners
  /\ TokenRing(Snapshot) # NilRing

\* C18: removeHost of a host that is not registered stores nothing and
\* leaves the published pointer, the hosts and the partitioner as they were;
\* removeHost of a registered host removes it, rebuilds the ring and the
\* active keyspace's replica map and publishes one new snapshot.
C18_RemoveHostOnMembershipChange ==
  [][lastOp'.name = "removeHost" =>
       \A h \in Hosts3 :
         removeHost(h, lastOp'.ans) =>
           IF h \notin hosts
           THEN /\ ~lastOp'.published
                /\ UNCHANGED <<partitioner, metadata, heap, hosts>>
           ELSE /\ hosts' = hosts \ {h}
                /\ UNCHANGED partitioner
                /\ RingIsCurrent
                /\ Republished(ActiveKeyspace, lastOp'.ans)]_vars

\* removeHost returned without publishing while hosts are registered and a
\* snapshot is out: its host was not among them
C18_Witness ==
  /\ lastOp.name = "removeHost"
  /\ ~lastOp.published
  /\ hosts # {}
  /\ TokenRing(Snapshot) # NilRing

\* C19: a published snapshot without a token ring has no replica map, and
\* once a published snapshot has a token ring every later one has one.
C19_NoReplicasWithoutRing ==
  [][/\ (metadata' # "nil" /\ TokenRing(Snapshot') = NilRing)
          => DOMAIN Snapshot'.replicas = {}
     /\ TokenRing(Snapshot) # NilRing => TokenRing(Snapshot') # NilRing]_vars

\* a keyspace resolved while the published snapshot had no ring, and no
\* replica map was stored
C19_Witness ==
  /\ lastOp.published
  /\ lastOp.ans.class = "SimpleStrategy"
  /\ hosts # {}
  /\ TokenRing(Snapshot) = NilRing
  /\ DOMAIN Snapshot.replicas = {}

\* goroutine t is between m.mu.Lock() and the end of its call
InCritical(t) == pc[t] \in {"entered", "resolving", "storing", "unlocking"}

\* C13: at most one writer goroutine is inside its critical section, and it
\* holds the lock; while a goroutine stays in the resolver call, the hosts,
\* the partitioner, the collaborators and the published snapshot stay as
\* they are.
C13_WritersMutuallyExclusive ==
  [][/\ \A t, u \in Writers : (InCritical(t)' /\ InCritical(u)') => t = u
     /\ \A t \in Writers : InCritical(t)' => mu' = t
     /\ \A t \in Writers :
          (pc[t] = "resolving" /\ pc'[t] = "resolving") =>
             UNCHANGED <<hosts, partitioner, metadata, getKeyspaceMetadata,
                         getKeyspaceName, logger>>]_vars

\* w1 is in the resolver call while w2 waits at the lock with an addHost
C13_Witness ==
  /\ pc["w1"] = "resolving"
  /\ mu = "w1"
  /\ pc["w2"] = "waiting"
  /\ call["w2"].name = "addHost"
  /\ call["w2"].args[1] \notin hosts

\* C14: getMetadataReadOnly can always be taken, whoever holds the lock; it
\* touches neither the lock nor a writer and hands out the published
\* pointer, and the object behind the published pointer never changes.
C14_ReadersNeverBlock ==
  /\ [](ENABLED Read)
  /\ [][/\ metadata' = metadata => Snapshot' = Snapshot
        /\ (readerRef' # readerRef \/ readerSeen' # readerSeen) =>
             /\ readerRef' = metadata
             /\ readerSeen' = Snapshot
             /\ UNCHANGED <<metadata, lockVars>>]_vars

\* the reader got the published snapshot while the writer sits in the
\* resolver call with a working copy whose ring is already another one
C14_Witness ==
  /\ pc["w1"] = "resolving"
  /\ mu = "w1"
  /\ lastOp.name = "getMetadataReadOnly"
  /\ readerRef = metadata
  /\ readerRef # "nil"
  /\ TokenRing(heap[call["w1"].ptr]) # TokenRing(readerSeen)

\* C15: every Store publishes a copy of the snapshot published right before
\* it, changed for the call's keyspace alone; a keyspaceChanged that
\* resolves under a ring adds its keyspace's map next to the other one's,
\* however the two calls interleave.
C15_NoLostUpdates ==
  [][\A t \in Writers :
       (pc[t] = "storing" /\ pc'[t] = "unlocking") =>
          /\ call[t].base = metadata
          /\ metadata' = call[t].ptr
          /\ StoredFor(call[t].target, call[t].ans)
          /\ (/\ call[t].name = "keyspaceChanged"
              /\ ~Failing(call[t].ans)
              /\ TokenRing(Snapshot) # NilRing
              /\ Keyspaces \ {call[t].target} \subseteq DOMAIN Snapshot.replicas)
               => DOMAIN Snapshot'.replicas = Keyspaces]_vars

\* keyspaceChanged(ks2) of w1 has stored while a keyspaceChanged of w2 waits
\* at the lock: both keyspaces have their maps
C15_Witness ==
  /\ pc["w1"] = "unlocking"
  /\ call["w1"].name = "keyspaceChanged"
  /\ call["w1"].target = "ks2"
  /\ call["w1"].base # "nil"
  /\ metadata = call["w1"].ptr
  /\ DOMAIN Snapshot.replicas = Keyspaces
  /\ pc["w2"] = "waiting"
  /\ call["w2"].name = "keyspaceChanged"

\* the lock is held by a goroutine that is inside a call
LockHeldInCall == mu # "free" => InCritical(mu)

\* C20: the lock is only ever held by a goroutine inside a call, a
\* panicking init releases it, and every call that waits for the lock gets
\* it and runs to its end, as long as the resolver returns.
C20_LockAlwaysReleased ==
  /\ []LockHeldInCall
  /\ \A t \in Writers : call[t].panicking ~> (mu = "free" /\ pc[t] = "idle")
  /\ \A t \in Writers : (pc[t] = "waiting") ~> (pc[t] = "idle")

\* a repeated init of w1 is panicking, the deferred Unlock not yet run,
\* while w2 waits at the lock with a keyspaceChanged
C20_Witness ==
  /\ call["w1"].name = "init"
  /\ call["w1"].panicking
  /\ pc["w1"] = "unlocking"
  /\ mu = "w1"
  /\ pc["w2"] = "waiting"
  /\ call["w2"].name = "keyspaceChanged"

====
